---- MODULE Spec2Model ----
(***************************************************************************)
(* The field-processing pipeline of src/field_processor.py                 *)
(* (FieldProcessor.process_fields and its three stages) and the part of    *)
(* src/main.py that calls it.  Every LLM round trip is one step: the       *)
(* reply (a text, or a transport error raised by the client) is the        *)
(* step's input.                                                            *)
(*                                                                         *)
(* Python values: a str is <<"str", s>> and a list of str built from a set *)
(* is <<"list", S>> wherever a key may hold either (source_pdf, sources);  *)
(* list(set(...)) has no defined order, so only its elements are kept.     *)
(* A dict is a TLA+ record (a function on its keys).                       *)
(***************************************************************************)
EXTENDS Integers, Sequences, FiniteSets, TLC

VARIABLES
    entry,             \* the method the caller invoked
    pc,                \* where that call stands
    fields,            \* the caller's field list (argument of the entry method)
    batch_size,        \* process_fields / _deduplicate_fields argument
    i,                 \* _deduplicate_fields: loop variable of line 80
    all_deduplicated,  \* _deduplicate_fields: accumulator, then its result
    grouped_fields,    \* _group_fields: its result
    conditional_logic, \* _generate_conditional_logic: decoded structure (line 352/355)
    output,            \* _generate_conditional_logic: the schema being assembled
    idx,               \* _generate_conditional_logic: loop variable of line 376
    calls,             \* every LLM request issued so far, with the reply it got
    raised,            \* the exception that left the entry method, or "none"
    exit_code,         \* main: <<>> while running, then <<status>>
    heap,              \* the dict objects: heap[id] is the content of object id
    lists,             \* the list objects: lists[id] is the ids of its elements
    list_of,           \* the list object each name is bound to (0: none yet)
    extract_only,      \* main: args.extract_only
    file               \* main: the output file, <<>> until written, then <<content>>

vars == <<entry, pc, fields, batch_size, i, all_deduplicated, grouped_fields,
          conditional_logic, output, idx, calls, raised, exit_code,
          heap, lists, list_of, extract_only, file>>

cli_vars == <<extract_only, file>>

obj_vars == <<heap, lists, list_of>>

dedup_vars == <<i, all_deduplicated>>
cond_vars == <<conditional_logic, output, idx>>

-----------------------------------------------------------------------------
(* Bounds of the model *)

MaxFields == 3   \* longest field list handed to a multi-request stage
MaxBatch == 2    \* longest list handed to _deduplicate_batch, stage 3 or main
MaxGroups == 2   \* most groups in one reply
MaxLines == 2    \* most lines a JSON document is spread over in a reply

Names == {"Name", "Full Name"}
Docs == {"a.pdf", "b.pdf"}

-----------------------------------------------------------------------------
(* Python values *)

PyStr(s) == <<"str", s>>
PyList(S) == <<"list", S>>

\* seq[idx] with Python's negative indexing; IndexError outside -len..len-1.
InRange(seq, index) == -Len(seq) <= index /\ index < Len(seq)
At(seq, index) == IF index >= 0 THEN seq[index + 1] ELSE seq[Len(seq) + index + 1]

\* d[key] = value on a dict: replaces the key's value or adds the key.
SetKey(d, key, value) == (key :> value) @@ d

\* seq[a:b] for 0 <= a (a Python slice never raises).
Slice(seq, a, b) ==
    LET hi == IF b < Len(seq) THEN b ELSE Len(seq)
    IN  IF a >= hi THEN <<>> ELSE SubSeq(seq, a + 1, hi)

-----------------------------------------------------------------------------
(* The reply of the LLM client.  A reply text is a sequence of lines.      *)

NoValue == [shape |-> "none", items |-> <<>>]

\* "```" and "```json"
Fence == [kind |-> "fence", value |-> NoValue, part |-> 0, of |-> 0]
FenceJson == [kind |-> "fencejson", value |-> NoValue, part |-> 0, of |-> 0]
\* a line that is the word "json"
JsonWord == [kind |-> "jsonword", value |-> NoValue, part |-> 0, of |-> 0]
\* a line of text that is not JSON
Prose == [kind |-> "prose", value |-> NoValue, part |-> 0, of |-> 0]
\* line `part` of the `of` lines of the JSON document encoding `value`
JsonLine(value, part, of) == [kind |-> "json", value |-> value, part |-> part, of |-> of]

Reply(text) == [raised |-> FALSE, text |-> text]
TransportError == [raised |-> TRUE, text |-> <<>>]

Bare(value) == Reply(<<JsonLine(value, 1, 1)>>)
Fenced(value) == Reply(<<FenceJson, JsonLine(value, 1, 1), Fence>>)
FencedPlain(value) == Reply(<<Fence, JsonLine(value, 1, 1), Fence>>)
\* the closing fence on the payload's line: two lines, nothing is stripped
FencedTwoLines(value) == Reply(<<FenceJson, JsonLine(value, 1, 1)>>)
NotJson == Reply(<<Prose>>)
\* the JSON document of a value written on n lines, bare and inside a fence
Document(value, n) == [k \in 1..n |-> JsonLine(value, k, n)]
FencedDocument(opening, value, n) == Reply(<<opening>> \o Document(value, n) \o <<Fence>>)

StartsWithFence(text) ==
    /\ Len(text) >= 1
    /\ text[1].kind \in {"fence", "fencejson"}

strip_code_block_opening_only(response_text) ==
    IF StartsWithFence(response_text)
    THEN LET lines == response_text
             inner == IF Len(lines) > 2 THEN SubSeq(lines, 2, Len(lines))
                                        ELSE response_text
         IN  IF Len(inner) >= 1 /\ inner[1].kind = "jsonword"
             THEN Tail(inner)
             ELSE inner
    ELSE response_text

\* field_processor.py 140-144 (the same block at 231-235, 345-349, 457-461)
strip_code_block(response_text) ==
    IF StartsWithFence(response_text)
    THEN LET lines == response_text
             inner == IF Len(lines) > 2 THEN SubSeq(lines, 2, Len(lines) - 1)
                                        ELSE response_text
         IN  IF Len(inner) >= 1 /\ inner[1].kind = "jsonword"
             THEN Tail(inner)
             ELSE inner
    ELSE response_text

\* json.loads: the text decodes iff it is all the lines of one document, in order.
json_loads(text) ==
    IF /\ Len(text) >= 1
       /\ \A k \in 1..Len(text) :
              /\ text[k].kind = "json"
              /\ text[k].part = k
              /\ text[k].of = Len(text)
              /\ text[k].value = text[1].value
    THEN [ok |-> TRUE, value |-> text[1].value]
    ELSE [ok |-> FALSE, value |-> NoValue]

Decode(response) == json_loads(strip_code_block(response.text))

-----------------------------------------------------------------------------
(* Results of a method: returned normally, or left by an exception.        *)

Returns(value) == [raised |-> "none", value |-> value]
Raises(exception) == [raised |-> exception, value |-> <<>>]

\* One LLM request: the stage that issued it, the loop position it was issued
\* at, and the field records its prompt lists.
Call(stage, at, about, response) ==
    [stage |-> stage, at |-> at, about |-> about, response |-> response]

-----------------------------------------------------------------------------
(* Stage 1: deduplication, field_processor.py 64-171                       *)

\* JSON values a deduplication reply may carry
Array(items) == [shape |-> "array", items |-> items]
Number == [shape |-> "number", items |-> <<>>]
Group(canonical_name, field_indices) ==
    [canonical_name |-> canonical_name, field_indices |-> field_indices]

merged_record_base_only(batch, group) ==
    LET base_field == [At(batch, group.field_indices[1])
                           EXCEPT !.field_name = group.canonical_name]
    IN  SetKey(base_field, "sources", PyList({base_field.source_pdf[2]}))

\* lines 162-169: the record emitted for one group (all indices in range)
merged_record(batch, group) ==
    LET indices == group.field_indices
        base_field == [At(batch, indices[1]) EXCEPT !.field_name = group.canonical_name]
        sources == {At(batch, indices[k]).source_pdf[2] : k \in 1..Len(indices)}
    IN  SetKey(base_field, "sources", PyList(sources))

\* lines 155-171: the loop over the decoded groups, from group k on
RECURSIVE merge_groups(_, _, _, _)
merge_groups(batch, groups, k, deduplicated) ==
    IF k > Len(groups) THEN Returns(deduplicated)
    ELSE LET group == groups[k] IN
         IF "field_indices" \notin DOMAIN group THEN Raises("KeyError")
         ELSE IF group.field_indices = <<>>
              THEN merge_groups(batch, groups, k + 1, deduplicated)
         ELSE IF ~InRange(batch, group.field_indices[1]) THEN Raises("IndexError")
         ELSE IF "canonical_name" \notin DOMAIN group THEN Raises("KeyError")
         ELSE IF \E j \in 1..Len(group.field_indices) :
                     ~InRange(batch, group.field_indices[j])
              THEN Raises("IndexError")
         ELSE merge_groups(batch, groups, k + 1,
                           Append(deduplicated, merged_record(batch, group)))

dedup_fallback_empty(batch) == <<>>

\* line 152: the fallback on a reply that does not decode
dedup_fallback(batch) == batch

\* lines 87-171
deduplicate_batch(batch, response) ==
    IF response.raised THEN Raises("APIError")
    ELSE LET decoded == Decode(response) IN
         IF ~decoded.ok THEN Returns(dedup_fallback(batch))
         ELSE IF decoded.value.shape # "array" THEN Raises("TypeError")
         ELSE merge_groups(batch, decoded.value.items, 1, <<>>)

chunk_to_end(all_fields, start, size) == Slice(all_fields, start, Len(all_fields))

\* line 81: batch = fields[i:i + batch_size]
chunk(all_fields, start, size) == Slice(all_fields, start, start + size)

extend_replacing(list, more) == more

\* line 83: all_deduplicated.extend(deduplicated_batch)
extend(list, more) == list \o more

-----------------------------------------------------------------------------
(* Stage 2: grouping, field_processor.py 173-254                           *)

NamedGroup(field_indices) == [group_name |-> "name", field_indices |-> field_indices]

fallback_groups_single(n) == <<NamedGroup([k \in 1..n |-> k - 1])>>

\* lines 242-243: the groups used when the reply does not decode
fallback_groups(n) == [k \in 1..n |-> NamedGroup(<<k - 1>>)]

\* lines 248-252: the inner loop over one group's indices, from index j on
RECURSIVE tag_group(_, _, _, _, _)
tag_group(list, indices, j, group_id, grouped) ==
    IF j > Len(indices) THEN Returns(grouped)
    ELSE IF indices[j] < Len(list)
         THEN IF ~InRange(list, indices[j]) THEN Raises("IndexError")
              ELSE tag_group(list, indices, j + 1, group_id,
                             Append(grouped, SetKey(At(list, indices[j]), "_group_id", group_id)))
         ELSE tag_group(list, indices, j + 1, group_id, grouped)

\* lines 246-254: the loop over the groups, from group k on (group_id = k - 1)
RECURSIVE tag_groups(_, _, _, _)
tag_groups(list, groups, k, grouped) ==
    IF k > Len(groups) THEN Returns(grouped)
    ELSE IF "field_indices" \notin DOMAIN groups[k] THEN Raises("KeyError")
    ELSE LET inner == tag_group(list, groups[k].field_indices, 1, k - 1, grouped) IN
         IF inner.raised # "none" THEN inner
         ELSE tag_groups(list, groups, k + 1, inner.value)

group_fields_catch_all(list, response) ==
    IF response.raised \/ ~Decode(response).ok
    THEN tag_groups(list, fallback_groups(Len(list)), 1, <<>>)
    ELSE IF Decode(response).value.shape # "array" THEN Raises("TypeError")
    ELSE tag_groups(list, Decode(response).value.items, 1, <<>>)

\* lines 182-254: _group_fields on a non-empty list
group_fields(list, response) ==
    IF response.raised THEN Raises("APIError")
    ELSE LET decoded == Decode(response) IN
         IF ~decoded.ok THEN tag_groups(list, fallback_groups(Len(list)), 1, <<>>)
         ELSE IF decoded.value.shape # "array" THEN Raises("TypeError")
         ELSE tag_groups(list, decoded.value.items, 1, <<>>)

-----------------------------------------------------------------------------
(* The same two stages on objects: which dict each list element is.  The   *)
(* variables fields, all_deduplicated and grouped_fields hold the value    *)
(* each list had when it was handed over; heap and lists hold the objects  *)
(* as they are now.                                                        *)

\* the contents of the objects a list holds
Deref(h, ids) == [k \in 1..Len(ids) |-> h[ids[k]]]

copy_in_place(h, id) == [heap |-> h, id |-> id]

\* lines 161 and 250: dict.copy() makes a new object with the same content
copy(h, id) == [heap |-> Append(h, h[id]), id |-> Len(h) + 1]

\* lines 155-171 on objects, for groups that raise nothing: each emitted
\* record is a copy of the first listed object, then written to
RECURSIVE merge_objects(_, _, _, _, _)
merge_objects(h, batch_ids, groups, k, deduplicated) ==
    IF k > Len(groups) THEN [heap |-> h, ids |-> deduplicated]
    ELSE IF groups[k].field_indices = <<>>
         THEN merge_objects(h, batch_ids, groups, k + 1, deduplicated)
    ELSE LET base_field == copy(h, At(batch_ids, groups[k].field_indices[1]))
             written == merged_record(Deref(h, batch_ids), groups[k])
         IN  merge_objects([base_field.heap EXCEPT ![base_field.id] = written],
                           batch_ids, groups, k + 1, Append(deduplicated, base_field.id))

\* lines 246-252 on objects, for groups that raise nothing: group k, index j
RECURSIVE tag_objects(_, _, _, _, _, _)
tag_objects(h, ids, groups, k, j, grouped) ==
    IF k > Len(groups) THEN [heap |-> h, ids |-> grouped]
    ELSE IF j > Len(groups[k].field_indices)
         THEN tag_objects(h, ids, groups, k + 1, 1, grouped)
    ELSE IF groups[k].field_indices[j] < Len(ids)
         THEN LET field == copy(h, At(ids, groups[k].field_indices[j])) IN
              tag_objects([field.heap EXCEPT
                               ![field.id] = SetKey(field.heap[field.id], "_group_id", k - 1)],
                          ids, groups, k, j + 1, Append(grouped, field.id))
         ELSE tag_objects(h, ids, groups, k, j + 1, grouped)

-----------------------------------------------------------------------------
(* Stage 3: conditional logic and labels, field_processor.py 256-472       *)

PyNone == <<"None", "">>
PyDict(members) == <<"dict", members>>

\* d.get(key, default) on a dict
Get(d, key, default) == IF key \in DOMAIN d THEN d[key] ELSE default

\* bool(value) of a str, a dict or None
Truthy(value) ==
    CASE value[1] = "None" -> FALSE
      [] value[1] = "str" -> value[2] # ""
      [] value[1] = "dict" -> DOMAIN value[2] # {}
      [] OTHER -> TRUE

Object(members) == [shape |-> "object", items |-> <<>>, members |-> members]

\* str(n) for n >= 0
Digit == <<"0", "1", "2", "3", "4", "5", "6", "7", "8", "9">>
RECURSIVE str(_)
str(n) == IF n < 10 THEN Digit[n + 1] ELSE str(n \div 10) \o Digit[(n % 10) + 1]

\* field_name.lower()
lower(field_name) ==
    CASE field_name = "Name" -> "name"
      [] field_name = "Full Name" -> "full name"

\* the output dict keeps insertion order: a sequence of [key, value] pairs
HasKey(dict, key) == \E k \in 1..Len(dict) : dict[k].key = key
Lookup(dict, key) == dict[CHOOSE k \in 1..Len(dict) : dict[k].key = key].value
Put_first_wins(dict, key, value) ==
    IF HasKey(dict, key) THEN dict
    ELSE Append(dict, [key |-> key, value |-> value])

\* output[key] = value: a new key is added last, a known key keeps its place
Put(dict, key, value) ==
    IF HasKey(dict, key)
    THEN [k \in 1..Len(dict) |->
             IF dict[k].key = key THEN [key |-> key, value |-> value] ELSE dict[k]]
    ELSE Append(dict, [key |-> key, value |-> value])

conditional_fallback_gated ==
    [parent_questions |-> <<>>,
     field_relationships |-> ("0" :> PyStr("are_you_married"))]

\* line 355: the structure used when the reply does not decode
conditional_fallback == [parent_questions |-> <<>>, field_relationships |-> <<>>]

parent_entry_unflagged(parent_q) ==
    [label |-> parent_q.label,
     type |-> parent_q.type,
     required |-> FALSE,
     options |-> Get(parent_q, "options", PyNone),
     _metadata |-> [generated |-> TRUE]]

\* lines 363-372: the entry of a parent question
parent_entry(parent_q) ==
    [label |-> parent_q.label,
     type |-> parent_q.type,
     required |-> FALSE,
     options |-> Get(parent_q, "options", PyNone),
     _metadata |-> [is_parent_question |-> TRUE, generated |-> TRUE]]

\* lines 361-372: insert the parent questions, from question k on
RECURSIVE add_parent_questions(_, _, _)
add_parent_questions(parent_questions, k, out) ==
    IF k > Len(parent_questions) THEN Returns(out)
    ELSE LET parent_q == parent_questions[k] IN
         IF {"question_id", "label", "type"} \subseteq DOMAIN parent_q
         THEN add_parent_questions(parent_questions, k + 1,
                  Put(out, parent_q.question_id, parent_entry(parent_q)))
         ELSE Raises("KeyError")

\* lines 336-372: the structural request, its decoding and the parent
\* questions; returns the decoded structure and the output so far
structural_synthesis(response) ==
    IF response.raised THEN Raises("APIError")
    ELSE LET decoded == Decode(response) IN
         IF ~decoded.ok
         THEN Returns([logic |-> conditional_fallback, out |-> <<>>])
         ELSE IF decoded.value.shape # "object" THEN Raises("AttributeError")
         ELSE LET logic == decoded.value.members
                  added == add_parent_questions(Get(logic, "parent_questions", <<>>), 1, <<>>)
              IN  IF added.raised # "none" THEN added
                  ELSE Returns([logic |-> logic, out |-> added.value])

fallback_label_verbatim(field_name) ==
    [label |-> "What is your " \o field_name \o "?",
     explanation |-> "Enter your " \o field_name]

\* lines 468-472: the templated label
fallback_label(field_name) ==
    [label |-> "What is your " \o lower(field_name) \o "?",
     explanation |-> "Enter your " \o lower(field_name)]

generate_label_and_explanation_uncaught(field_name, response) ==
    IF response.raised THEN Raises("APIError")
    ELSE IF ~Decode(response).ok THEN Returns(Object(fallback_label(field_name)))
    ELSE Returns(Decode(response).value)

\* lines 429-472: _generate_label_and_explanation; the value returned is the
\* decoded JSON value, whatever its shape, or the template on any exception
generate_label_and_explanation(field_name, response) ==
    IF response.raised \/ ~Decode(response).ok
    THEN Returns(Object(fallback_label(field_name)))
    ELSE Returns(Decode(response).value)

relationship_of_shifted(logic, index) ==
    LET relationships == Get(logic, "field_relationships", <<>>)
        relationship == Get(relationships, str(index + 1), PyNone)
    IN  IF ~Truthy(relationship)
        THEN [parent_id |-> PyNone, parent_condition |-> PyNone]
        ELSE IF relationship[1] = "dict"
             THEN [parent_id |-> Get(relationship[2], "parent_id", PyNone),
                   parent_condition |-> Get(relationship[2], "condition", PyNone)]
             ELSE [parent_id |-> relationship, parent_condition |-> PyNone]

\* lines 384-395: parent and condition of the field at position index
relationship_of(logic, index) ==
    LET relationships == Get(logic, "field_relationships", <<>>)
        relationship == Get(relationships, str(index), PyNone)
    IN  IF ~Truthy(relationship)
        THEN [parent_id |-> PyNone, parent_condition |-> PyNone]
        ELSE IF relationship[1] = "dict"
             THEN [parent_id |-> Get(relationship[2], "parent_id", PyNone),
                   parent_condition |-> Get(relationship[2], "condition", PyNone)]
             ELSE [parent_id |-> relationship, parent_condition |-> PyNone]

field_metadata_own_document(field, index, logic) ==
    LET rel == relationship_of(logic, index)
        metadata ==
            [field_name |-> field.field_name,
             source_pdf |-> PyList({field.source_pdf[2]}),
             order_index |-> Get(field, "_group_id", index),
             parent |-> rel.parent_id,
             position |-> PyNone]
    IN  IF Truthy(rel.parent_condition)
        THEN SetKey(metadata, "parent_condition", rel.parent_condition)
        ELSE metadata

\* lines 397-408: the _metadata block of a field
field_metadata(field, index, logic) ==
    LET rel == relationship_of(logic, index)
        metadata ==
            [field_name |-> field.field_name,
             source_pdf |-> Get(field, "sources", PyList({field.source_pdf[2]})),
             order_index |-> Get(field, "_group_id", index),
             parent |-> rel.parent_id,
             position |-> PyNone]
    IN  IF Truthy(rel.parent_condition)
        THEN SetKey(metadata, "parent_condition", rel.parent_condition)
        ELSE metadata

\* lines 419-425: options and max_length are carried over when set
with_optional(item, field) ==
    LET with_options ==
            IF "options" \in DOMAIN field /\ field.options # <<>>
            THEN SetKey(item, "options", field.options) ELSE item
    IN  IF "max_length" \in DOMAIN field /\ field.max_length # 0
        THEN SetKey(with_options, "max_length", field.max_length) ELSE with_options

\* lines 376-425: one iteration of the loop over the fields
add_field(out, field, index, logic, response) ==
    LET labelled == generate_label_and_explanation(field.field_name, response) IN
    IF labelled.raised # "none" THEN labelled
    ELSE LET label_explanation == labelled.value IN
         IF label_explanation.shape # "object" THEN Raises("TypeError")
         ELSE IF ~({"label", "explanation"} \subseteq DOMAIN label_explanation.members)
              THEN Raises("KeyError")
         ELSE Returns(Put(out, field.field_name,
                  with_optional(
                      [label |-> label_explanation.members.label,
                       explanation |-> label_explanation.members.explanation,
                       type |-> Get(field, "field_type", "text"),
                       required |-> Get(field, "required", FALSE),
                       placeholder |-> "Enter your " \o lower(field.field_name),
                       _metadata |-> field_metadata(field, index, logic)],
                      field)))

-----------------------------------------------------------------------------
(* Inputs: field lists and replies                                         *)

SeqsUpTo(S, n) == UNION {[1..k -> S] : k \in 0..n}

\* records as the extractor builds them (pdf_acroform_extractor.py 97-106),
\* cut to the keys the stages read or write
FieldRecords == [field_name : Names, source_pdf : {PyStr(d) : d \in Docs}]

\* the other texts that carry one JSON value
TextShapes(value) ==
    { Fenced(value), FencedPlain(value), FencedTwoLines(value),
      Reply(<<Fence, JsonWord, JsonLine(value, 1, 1), Fence>>),
      Reply(<<JsonWord, JsonLine(value, 1, 1)>>) }
    \cup {Reply(Document(value, n)) : n \in 2..MaxLines}
    \cup {FencedDocument(opening, value, n) : opening \in {Fence, FenceJson}, n \in 2..MaxLines}

\* replies that carry no JSON value
NoJsonReplies == {NotJson, Reply(<<>>), Reply(<<Fence, Prose, Fence>>)}

\* index lists of a group: in range, repeated, negative, out of range
IndexLists == {<<>>, <<0>>, <<1>>, <<0, 1>>, <<1, 0>>, <<-1>>, <<0, MaxBatch>>}

DedupGroups == {Group(c, ix) : c \in Names, ix \in IndexLists}

DedupValues ==
    {Array(groups) : groups \in SeqsUpTo(DedupGroups, MaxGroups)}
    \cup {Array(<<[field_indices |-> <<0>>]>>), Array(<<[field_indices |-> <<>>]>>),
          Array(<<[canonical_name |-> "Name"]>>), Number}

\* replies to one direct _deduplicate_batch call
DedupReplies ==
    {Bare(v) : v \in DedupValues}
    \cup UNION {TextShapes(Array(<<Group(c, <<0>>)>>)) : c \in Names}
    \cup NoJsonReplies \cup {TransportError}

AllIndices(n) == [k \in 1..n |-> k - 1]
Singletons(batch) == [k \in 1..Len(batch) |-> Group(batch[k].field_name, <<k - 1>>)]

\* replies to the request for one chunk of _deduplicate_fields: merge the whole
\* chunk, keep every field apart, no group, a field outside the chunk, no JSON,
\* error
ChunkReplies(batch) ==
    { Bare(Array(<<Group("Full Name", AllIndices(Len(batch)))>>)),
      Bare(Array(Singletons(batch))), Bare(Array(<<>>)),
      Bare(Array(<<Group("Name", <<Len(batch)>>)>>)),
      NotJson, TransportError }

\* index lists of a grouping reply: in range, repeated, negative (wrapping
\* and not), out of range
GroupIndexLists ==
    { <<>>, <<0>>, <<1>>, <<0, 1>>, <<0, 0>>, <<2>>, <<-1>>,
      <<MaxFields>>, <<-MaxFields - 1>> }

GroupingValues ==
    {Array(groups) : groups \in SeqsUpTo({NamedGroup(ix) : ix \in GroupIndexLists}, MaxGroups)}
    \cup {Array(<<[group_name |-> "name"]>>), Number}

\* replies to the one request of _group_fields
GroupingReplies ==
    {Bare(v) : v \in GroupingValues}
    \cup TextShapes(Array(<<NamedGroup(<<0>>)>>))
    \cup NoJsonReplies \cup {TransportError}

\* records as stage 3 may receive them: as extracted, merged and grouped, or
\* only grouped
CondRecords ==
    UNION { { [field_name |-> n, source_pdf |-> PyStr("a.pdf")],
              [field_name |-> n, source_pdf |-> PyStr("a.pdf"),
               sources |-> PyList(Docs), _group_id |-> 0],
              [field_name |-> n, source_pdf |-> PyStr("b.pdf"), _group_id |-> 1] }
            : n \in Names }

Question(question_id) ==
    [question_id |-> question_id, label |-> "Are you married?", type |-> "boolean"]
Gate == PyDict([parent_id |-> PyStr("are_you_married"),
                condition |-> PyDict([operator |-> "equals", value |-> "true"])])

\* parent question lists: none, one, one whose id is a field name, two of
\* which the first has a field name as id, the same id twice, one without
\* its label
ParentLists ==
    { <<>>, <<Question("are_you_married")>>, <<Question("Name")>>,
      <<Question("Name"), Question("are_you_married")>>,
      <<Question("are_you_married"), Question("are_you_married")>>,
      <<[question_id |-> "are_you_married"]>> }

\* relationship objects: none, the first field gated, the second field gated,
\* the legacy string form, no condition, an empty object, no such position
RelationshipMaps ==
    { <<>>, "0" :> Gate, "1" :> Gate, "0" :> PyStr("are_you_married"),
      "0" :> PyDict([parent_id |-> PyStr("are_you_married")]),
      "0" :> PyDict(<<>>), str(MaxBatch) :> Gate }

ConditionalValues ==
    {Object([parent_questions |-> pq, field_relationships |-> rm]) :
        pq \in ParentLists, rm \in RelationshipMaps}
    \cup {Object(<<>>), Array(<<>>), Number}

\* replies to the structural request of _generate_conditional_logic
ConditionalReplies ==
    {Bare(v) : v \in ConditionalValues}
    \cup {NotJson, FencedTwoLines(Object(<<>>)), TransportError}

GoodLabel == Object([label |-> "Your name, please",
                     explanation |-> "As on official documents"])

\* replies to one labelling request
LabelReplies ==
    { Bare(GoodLabel), NotJson, TransportError,
      Bare(Object([label |-> "Your name, please"])), Bare(Array(<<>>)) }

\* the replies of a whole run of main: per stage one that parses, one that is
\* no JSON and a transport error; for deduplication also one whose group
\* lists a position outside the batch
RunDedupReplies(batch) ==
    { Bare(Array(<<Group("Full Name", AllIndices(Len(batch)))>>)), NotJson, TransportError,
      Bare(Array(<<Group("Full Name", <<0, MaxBatch>>)>>)) }
RunGroupReplies(list) ==
    { Bare(Array(<<NamedGroup(AllIndices(Len(list)))>>)), NotJson, TransportError }
RunConditionalReplies ==
    { Bare(Object([parent_questions |-> <<Question("are_you_married")>>,
                   field_relationships |-> ("0" :> Gate)])),
      NotJson, TransportError }
RunLabelReplies == {Bare(GoodLabel), TransportError}

-----------------------------------------------------------------------------
(* Initial states: one per entry method and argument list                  *)

NoObjects ==
    /\ heap = <<>>
    /\ lists = <<>>
    /\ list_of = [fields |-> 0, all_deduplicated |-> 0, grouped_fields |-> 0]

\* the caller holds one list object whose elements are distinct dict objects
CallerObjects(list, name) ==
    /\ heap = list
    /\ lists = <<[k \in 1..Len(list) |-> k]>>
    /\ list_of = (name :> 1) @@ [fields |-> 0, all_deduplicated |-> 0, grouped_fields |-> 0]

\* the entry method is not main: no command line and no output file
NoCli ==
    /\ extract_only = FALSE
    /\ file = <<>>

InitLocals ==
    /\ i = 0
    /\ all_deduplicated = <<>>
    /\ grouped_fields = <<>>
    /\ conditional_logic = <<>>
    /\ output = <<>>
    /\ idx = 0
    /\ calls = <<>>
    /\ raised = "none"
    /\ exit_code = <<>>

\* a direct call of _deduplicate_batch(fields)
InitBatch ==
    /\ entry = "_deduplicate_batch"
    /\ pc = "dedup"
    /\ fields \in SeqsUpTo(FieldRecords, MaxBatch)
    /\ batch_size = 1
    /\ InitLocals
    /\ NoObjects
    /\ NoCli

\* a direct call of _deduplicate_fields(fields, batch_size)
InitDedup ==
    /\ entry = "_deduplicate_fields"
    /\ pc = "dedup"
    /\ fields \in SeqsUpTo(FieldRecords, MaxFields)
    /\ batch_size \in 1..MaxFields
    /\ InitLocals
    /\ CallerObjects(fields, "fields")
    /\ NoCli

\* a direct call of _group_fields(all_deduplicated)
InitGroup ==
    /\ entry = "_group_fields"
    /\ pc = "group"
    /\ fields = <<>>
    /\ batch_size = 1
    /\ i = 0
    /\ all_deduplicated \in SeqsUpTo(FieldRecords, MaxFields)
    /\ grouped_fields = <<>>
    /\ conditional_logic = <<>>
    /\ output = <<>>
    /\ idx = 0
    /\ calls = <<>>
    /\ raised = "none"
    /\ exit_code = <<>>
    /\ CallerObjects(all_deduplicated, "all_deduplicated")
    /\ NoCli

\* a direct call of _generate_conditional_logic(grouped_fields)
InitConditional ==
    /\ entry = "_generate_conditional_logic"
    /\ pc = "conditional"
    /\ fields = <<>>
    /\ batch_size = 1
    /\ i = 0
    /\ all_deduplicated = <<>>
    /\ grouped_fields \in SeqsUpTo(CondRecords, MaxBatch)
    /\ conditional_logic = <<>>
    /\ output = <<>>
    /\ idx = 0
    /\ calls = <<>>
    /\ raised = "none"
    /\ exit_code = <<>>
    /\ NoObjects
    /\ NoCli

\* main after the extraction of lines 132-138: fields is extracted_fields
Init ==
    /\ entry = "main"
    /\ pc = "extracted"
    /\ fields \in SeqsUpTo(FieldRecords, MaxBatch)
    /\ batch_size \in 1..MaxBatch
    /\ InitLocals
    /\ CallerObjects(fields, "fields")
    /\ extract_only \in BOOLEAN
    /\ file = <<>>

-----------------------------------------------------------------------------
(* Steps                                                                   *)

\* an exception leaves the entry method; main (163-165) turns it into exit 1
Abort(exception) ==
    /\ pc' = "raised"
    /\ raised' = exception
    /\ exit_code' = IF entry = "main" THEN <<1>> ELSE exit_code

\* _deduplicate_fields returns: to its caller, or on to stage 2 (line 56)
ReturnDeduplicated ==
    /\ pc' = IF entry = "main" THEN "group" ELSE "returned"
    /\ UNCHANGED <<raised, exit_code>>

\* _deduplicate_batch called directly (87-171)
deduplicate_batch_call(response) ==
    /\ entry = "_deduplicate_batch"
    /\ pc = "dedup"
    /\ calls' = Append(calls, Call("dedup", 0, fields, response))
    /\ LET result == deduplicate_batch(fields, response) IN
       IF result.raised # "none"
       THEN Abort(result.raised) /\ UNCHANGED all_deduplicated
       ELSE /\ all_deduplicated' = result.value
            /\ pc' = "returned"
            /\ UNCHANGED <<raised, exit_code>>
    /\ UNCHANGED <<entry, fields, batch_size, i, grouped_fields, cond_vars, obj_vars,
                   cli_vars>>

\* _deduplicate_fields on an empty list (75-76): no request
deduplicate_fields_empty ==
    /\ entry # "_deduplicate_batch"
    /\ pc = "dedup"
    /\ fields = <<>>
    /\ ReturnDeduplicated
    /\ lists' = Append(lists, <<>>)
    /\ list_of' = [list_of EXCEPT !.all_deduplicated = Len(lists) + 1]
    /\ UNCHANGED <<entry, fields, batch_size, dedup_vars, grouped_fields, cond_vars, calls,
                   heap, cli_vars>>

\* the same iteration on objects, for a reply that raises nothing: the list
\* of line 79 is made before the first iteration, the batch is a slice of the
\* caller's list, its result is the batch itself (152) or new copies (155-171)
deduplicate_objects(response) ==
    LET made == IF i = 0 THEN Append(lists, <<>>) ELSE lists
        result_list == IF i = 0 THEN Len(lists) + 1 ELSE list_of.all_deduplicated
        batch_ids == chunk(lists[list_of.fields], i, batch_size)
        decoded == Decode(response)
        merged == IF decoded.ok
                  THEN merge_objects(heap, batch_ids, decoded.value.items, 1, <<>>)
                  ELSE [heap |-> heap, ids |-> dedup_fallback(batch_ids)]
    IN  /\ heap' = merged.heap
        /\ lists' = [made EXCEPT ![result_list] = extend(@, merged.ids)]
        /\ list_of' = [list_of EXCEPT !.all_deduplicated = result_list]

\* one iteration of the loop of _deduplicate_fields (80-83), and the return
\* of line 85 after the last one
deduplicate_fields_batch(response) ==
    /\ entry # "_deduplicate_batch"
    /\ pc = "dedup"
    /\ i < Len(fields)
    /\ LET batch == chunk(fields, i, batch_size)
           result == deduplicate_batch(batch, response)
       IN  /\ calls' = Append(calls, Call("dedup", i, batch, response))
           /\ IF result.raised # "none"
              THEN Abort(result.raised) /\ UNCHANGED <<dedup_vars, obj_vars>>
              ELSE /\ all_deduplicated' = extend(all_deduplicated, result.value)
                   /\ i' = i + batch_size
                   /\ IF i + batch_size < Len(fields)
                      THEN UNCHANGED <<pc, raised, exit_code>>
                      ELSE ReturnDeduplicated
                   /\ deduplicate_objects(response)
    /\ UNCHANGED <<entry, fields, batch_size, grouped_fields, cond_vars, cli_vars>>

ReturnGrouped_again ==
    /\ pc' = IF entry = "main" THEN "group" ELSE "returned"
    /\ UNCHANGED <<raised, exit_code>>

\* _group_fields returns: to its caller, or on to stage 3 (line 60)
ReturnGrouped ==
    /\ pc' = IF entry = "main" THEN "conditional" ELSE "returned"
    /\ UNCHANGED <<raised, exit_code>>

\* _group_fields on an empty list (179-180): no request
group_fields_empty ==
    /\ pc = "group"
    /\ all_deduplicated = <<>>
    /\ grouped_fields' = <<>>
    /\ ReturnGrouped
    /\ lists' = Append(lists, <<>>)
    /\ list_of' = [list_of EXCEPT !.grouped_fields = Len(lists) + 1]
    /\ UNCHANGED <<entry, fields, batch_size, dedup_vars, cond_vars, calls, heap, cli_vars>>

\* lines 245-254 on objects, for a reply that raises nothing: a new list of
\* tagged copies
group_objects(response) ==
    LET decoded == Decode(response)
        groups == IF decoded.ok THEN decoded.value.items
                  ELSE fallback_groups(Len(all_deduplicated))
        tagged == tag_objects(heap, lists[list_of.all_deduplicated], groups, 1, 1, <<>>)
    IN  /\ heap' = tagged.heap
        /\ lists' = Append(lists, tagged.ids)
        /\ list_of' = [list_of EXCEPT !.grouped_fields = Len(lists) + 1]

\* _group_fields on a non-empty list (182-254): one request
group_fields_call(response) ==
    /\ pc = "group"
    /\ all_deduplicated # <<>>
    /\ calls' = Append(calls, Call("group", 0, all_deduplicated, response))
    /\ LET result == group_fields(all_deduplicated, response) IN
       IF result.raised # "none"
       THEN Abort(result.raised) /\ UNCHANGED <<grouped_fields, obj_vars>>
       ELSE grouped_fields' = result.value /\ ReturnGrouped /\ group_objects(response)
    /\ UNCHANGED <<entry, fields, batch_size, dedup_vars, cond_vars, cli_vars>>

\* _generate_conditional_logic returns (427): to its caller, or to main (168)
ReturnOutput ==
    /\ pc' = IF entry = "main" THEN "save" ELSE "returned"
    /\ UNCHANGED <<raised, exit_code>>

\* _generate_conditional_logic up to its first labelling request (265-375)
conditional_logic_request(response) ==
    /\ pc = "conditional"
    /\ calls' = Append(calls, Call("conditional", 0, grouped_fields, response))
    /\ LET result == structural_synthesis(response) IN
       IF result.raised # "none"
       THEN Abort(result.raised) /\ UNCHANGED cond_vars
       ELSE /\ conditional_logic' = result.value.logic
            /\ output' = result.value.out
            /\ idx' = 0
            /\ IF grouped_fields = <<>>
               THEN ReturnOutput
               ELSE pc' = "label" /\ UNCHANGED <<raised, exit_code>>
    /\ UNCHANGED <<entry, fields, batch_size, dedup_vars, grouped_fields, obj_vars, cli_vars>>

\* one iteration of the loop over the fields (376-425), and the return of
\* line 427 after the last one
label_request(response) ==
    /\ pc = "label"
    /\ idx < Len(grouped_fields)
    /\ LET field == grouped_fields[idx + 1]
           result == add_field(output, field, idx, conditional_logic, response)
       IN  /\ calls' = Append(calls,
                   Call("label", idx, <<[field_name |-> field.field_name]>>, response))
           /\ IF result.raised # "none"
              THEN Abort(result.raised) /\ UNCHANGED <<output, idx>>
              ELSE /\ output' = result.value
                   /\ idx' = idx + 1
                   /\ IF idx + 1 < Len(grouped_fields)
                      THEN UNCHANGED <<pc, raised, exit_code>>
                      ELSE ReturnOutput
    /\ UNCHANGED <<entry, fields, batch_size, dedup_vars, grouped_fields, conditional_logic,
                   obj_vars, cli_vars>>

\* main 140-153: an empty extraction exits with status 0 whatever the mode;
\* in extract-only mode a non-empty extraction is written and main returns
\* (an exception of the unguarded write ends the process with status 1)
main_extracted(written) ==
    /\ entry = "main"
    /\ pc = "extracted"
    /\ IF fields = <<>>
       THEN pc' = "exit" /\ exit_code' = <<0>> /\ UNCHANGED file
       ELSE IF extract_only
            THEN /\ pc' = "exit"
                 /\ exit_code' = IF written THEN <<0>> ELSE <<1>>
                 /\ file' = IF written
                            THEN <<[total_fields |-> Len(fields), fields |-> fields]>>
                            ELSE file
            ELSE pc' = "start" /\ UNCHANGED <<exit_code, file>>
    /\ UNCHANGED <<entry, fields, batch_size, dedup_vars, grouped_fields, cond_vars, calls,
                   raised, obj_vars, extract_only>>

\* main 157-165: FieldProcessor(api_key) raises ValueError without a key
\* (field_processor.py 23-28), otherwise process_fields starts
main_start(has_api_key) ==
    /\ entry = "main"
    /\ pc = "start"
    /\ IF has_api_key
       THEN pc' = "dedup" /\ UNCHANGED <<raised, exit_code>>
       ELSE Abort("ValueError")
    /\ UNCHANGED <<entry, fields, batch_size, dedup_vars, grouped_fields, cond_vars, calls,
                   obj_vars, cli_vars>>

\* main 167-197: the output file is written, or writing it fails
main_save(written) ==
    /\ entry = "main"
    /\ pc = "save"
    /\ pc' = "exit"
    /\ exit_code' = IF written THEN <<0>> ELSE <<1>>
    /\ file' = IF written THEN <<output>> ELSE file
    /\ UNCHANGED <<entry, fields, batch_size, dedup_vars, grouped_fields, cond_vars,
                   calls, raised, obj_vars, extract_only>>

\* (the guard on pc is repeated before each quantifier so that a finished run
\* does not enumerate the replies)
NextBatch ==
    /\ pc = "dedup"
    /\ \E response \in DedupReplies : deduplicate_batch_call(response)

NextDedup ==
    \/ deduplicate_fields_empty
    \/ /\ pc = "dedup"
       /\ \E response \in ChunkReplies(chunk(fields, i, batch_size)) :
              deduplicate_fields_batch(response)

NextGroup ==
    \/ group_fields_empty
    \/ /\ pc = "group"
       /\ \E response \in GroupingReplies : group_fields_call(response)

NextConditional ==
    \/ /\ pc = "conditional"
       /\ \E response \in ConditionalReplies : conditional_logic_request(response)
    \/ /\ pc = "label"
       /\ \E response \in LabelReplies : label_request(response)

Next ==
    \/ \E written \in BOOLEAN : main_extracted(written)
    \/ \E has_api_key \in BOOLEAN : main_start(has_api_key)
    \/ /\ pc = "dedup"
       /\ \E response \in RunDedupReplies(chunk(fields, i, batch_size)) :
              deduplicate_fields_batch(response)
    \/ /\ pc = "group"
       /\ \E response \in RunGroupReplies(all_deduplicated) : group_fields_call(response)
    \/ /\ pc = "conditional"
       /\ \E response \in RunConditionalReplies : conditional_logic_request(response)
    \/ /\ pc = "label"
       /\ \E response \in RunLabelReplies : label_request(response)
    \/ \E written \in BOOLEAN : main_save(written)

Spec == Init /\ [][Next]_vars
SpecConditional == InitConditional /\ [][NextConditional]_vars
SpecBatch == InitBatch /\ [][NextBatch]_vars
SpecDedup == InitDedup /\ [][NextDedup]_vars
SpecGroup == InitGroup /\ [][NextGroup]_vars

-----------------------------------------------------------------------------
(* Claims about deduplication                                              *)

Example == << [field_name |-> "Name", source_pdf |-> PyStr("a.pdf")],
              [field_name |-> "Full Name", source_pdf |-> PyStr("b.pdf")] >>
ExampleReply == Bare(Array(<<Group("Full Name", <<0, 1>>)>>))

\* the direct _deduplicate_batch call is over and its reply was `LastReply`
BatchCallOver == entry = "_deduplicate_batch" /\ pc # "dedup" /\ Len(calls) = 1
LastReply == calls[Len(calls)].response
ParsedArray(response) ==
    /\ ~response.raised
    /\ Decode(response).ok
    /\ Decode(response).value.shape = "array"
Unparsed(response) == ~response.raised /\ ~Decode(response).ok

NonEmpty(group) == group.field_indices # <<>>
\* a group the merge can use: both keys, every index a position of the batch
Usable(batch, group) ==
    /\ "field_indices" \in DOMAIN group
    /\ group.field_indices # <<>> =>
           /\ "canonical_name" \in DOMAIN group
           /\ \A j \in 1..Len(group.field_indices) : InRange(batch, group.field_indices[j])
DocsListed(batch, group) ==
    {At(batch, group.field_indices[j]).source_pdf[2] : j \in 1..Len(group.field_indices)}

\* C1 as stated: for a reply that parses (its groups usable), each group with a
\* non-empty index list yields one record, the first listed record with
\* field_name replaced by the canonical name and source_pdf replaced by the set
\* of the listed fields' documents.
C1_SourcePdfReplaced ==
    (/\ BatchCallOver
     /\ ParsedArray(LastReply)
     /\ \A k \in 1..Len(Decode(LastReply).value.items) :
            Usable(fields, Decode(LastReply).value.items[k]))
    => LET kept == SelectSeq(Decode(LastReply).value.items, NonEmpty) IN
       /\ raised = "none"
       /\ Len(all_deduplicated) = Len(kept)
       /\ \A j \in 1..Len(kept) :
              all_deduplicated[j] =
                  [At(fields, kept[j].field_indices[1])
                      EXCEPT !.field_name = kept[j].canonical_name,
                             !.source_pdf = PyList(DocsListed(fields, kept[j]))]

\* what lines 155-171 emit for usable groups: per non-empty group the first
\* listed record, renamed, with the new key sources; source_pdf is kept
Emitted(batch, groups) ==
    LET kept == SelectSeq(groups, NonEmpty) IN
    [j \in 1..Len(kept) |->
        [field_name |-> kept[j].canonical_name,
         source_pdf |-> At(batch, kept[j].field_indices[1]).source_pdf,
         sources |-> PyList(DocsListed(batch, kept[j]))]]

\* C1 (amended): for a reply that parses to an array of groups, if every group
\* is usable the call returns one record per group with a non-empty index
\* list, in group order: the first listed record with field_name replaced by
\* the canonical name, source_pdf unchanged, and the new key sources holding
\* the set of the listed fields' documents; otherwise the call raises and
\* returns nothing.
C1_MergedRecordPerGroup ==
    (BatchCallOver /\ ParsedArray(LastReply)) =>
        LET groups == Decode(LastReply).value.items IN
        IF \A k \in 1..Len(groups) : Usable(fields, groups[k])
        THEN /\ pc = "returned"
             /\ raised = "none"
             /\ all_deduplicated = Emitted(fields, groups)
        ELSE /\ pc = "raised"
             /\ raised \in {"KeyError", "IndexError"}
             /\ all_deduplicated = <<>>

C1_Witness ==
    /\ BatchCallOver
    /\ fields = Example
    /\ LastReply = ExampleReply
    /\ pc = "returned"
    /\ all_deduplicated =
           << [field_name |-> "Full Name", source_pdf |-> PyStr("a.pdf"),
               sources |-> PyList({"a.pdf", "b.pdf"})] >>

\* C2: a reply text that is not valid JSON makes _deduplicate_batch return its
\* input batch unchanged: same length, same records, same order.
C2_FallbackReturnsBatch ==
    (BatchCallOver /\ Unparsed(LastReply)) =>
        /\ pc = "returned"
        /\ raised = "none"
        /\ Len(all_deduplicated) = Len(fields)
        /\ \A k \in 1..Len(fields) : all_deduplicated[k] = fields[k]

C2_Witness ==
    /\ BatchCallOver
    /\ Unparsed(LastReply)
    /\ StartsWithFence(LastReply.text)
    /\ fields = Example
    /\ all_deduplicated = Example

\* the requests of stage 1 so far, in the order issued
IsDedupCall(call) == call.stage = "dedup"
DedupCalls == SelectSeq(calls, IsDedupCall)

\* chunk k (from 1) of the caller's list, by position arithmetic
ChunkStart(k) == (k - 1) * batch_size
ExpectedChunk(k) ==
    LET rest == Len(fields) - ChunkStart(k)
        len == IF rest < batch_size THEN rest ELSE batch_size
    IN  [j \in 1..len |-> fields[ChunkStart(k) + j]]

\* what a reply makes of a batch: the batch itself when the text is no JSON,
\* the emitted records when it parses to usable groups, nothing when the
\* request or the merge raises
ExpectedResult(batch, response) ==
    IF response.raised THEN <<>>
    ELSE IF Unparsed(response) THEN batch
    ELSE IF /\ ParsedArray(response)
            /\ \A g \in 1..Len(Decode(response).value.items) :
                   Usable(batch, Decode(response).value.items[g])
         THEN Emitted(batch, Decode(response).value.items)
         ELSE <<>>

RECURSIVE ConcatResults(_)
ConcatResults(k) ==
    IF k = 0 THEN <<>>
    ELSE ConcatResults(k - 1) \o ExpectedResult(ExpectedChunk(k), DedupCalls[k].response)

\* the records of all_deduplicated that request k produced
Segment(k) ==
    SubSeq(all_deduplicated,
           Len(ConcatResults(k - 1)) + 1,
           Len(ConcatResults(k)))

\* the record is built from records of the batch alone
BuiltFrom(rec, batch) ==
    \E p \in 1..Len(batch) :
        /\ rec.source_pdf = batch[p].source_pdf
        /\ IF "sources" \in DOMAIN rec
           THEN /\ rec.source_pdf[2] \in rec.sources[2]
                /\ rec.sources[2] \subseteq {batch[q].source_pdf[2] : q \in 1..Len(batch)}
           ELSE rec = batch[p]

\* C3 (amended): the list is cut into consecutive chunks of at most batch_size
\* in original order, request k lists exactly chunk k, and every output record
\* is built only from records of the chunk whose request produced it, so
\* records of different chunks are never merged; with batch_size = 1 each
\* chunk is one record and each output record derives from that record alone,
\* and the output equals the input when every chunk took the fallback.
C3_ChunksRespected ==
    /\ \A k \in 1..Len(DedupCalls) :
           LET segment == Segment(k)
               expected == ExpectedChunk(k)
           IN  /\ DedupCalls[k].at = ChunkStart(k)
               /\ DedupCalls[k].about = expected
               /\ Len(DedupCalls[k].about) \in 1..batch_size
               /\ Len(ConcatResults(k)) <= Len(all_deduplicated)
               /\ \A j \in 1..Len(segment) : BuiltFrom(segment[j], expected)
               /\ batch_size = 1 =>
                      \A j \in 1..Len(segment) :
                          /\ segment[j].source_pdf = fields[k].source_pdf
                          /\ "sources" \in DOMAIN segment[j] =>
                                 segment[j].sources = PyList({fields[k].source_pdf[2]})
    /\ (pc = "returned" /\ entry = "_deduplicate_fields") =>
           /\ Len(DedupCalls) * batch_size >= Len(fields)
           /\ (Len(DedupCalls) - 1) * batch_size < Len(fields) \/ fields = <<>>
           /\ (\A k \in 1..Len(DedupCalls) : Unparsed(DedupCalls[k].response)) =>
                  all_deduplicated = fields

\* C3 as stated: chunks are respected and, with batch_size = 1, every batch
\* deduplicates to itself, so the stage's output equals its input.
C3_BatchSizeOneIsIdentity ==
    /\ C3_ChunksRespected
    /\ (pc = "returned" /\ entry = "_deduplicate_fields" /\ batch_size = 1) =>
           all_deduplicated = fields

\* two identical records in different chunks, both chunks merged as a whole
C3_Witness ==
    /\ entry = "_deduplicate_fields"
    /\ pc = "returned"
    /\ batch_size = 1
    /\ Len(fields) = 2
    /\ fields[1] = fields[2]
    /\ Len(DedupCalls) = 2
    /\ \A k \in 1..2 : ParsedArray(DedupCalls[k].response)
    /\ Len(all_deduplicated) = 2

\* C4: the fallback is per chunk: the result is the concatenation, in chunk
\* order, of each chunk's own result, which is the chunk unmerged when its
\* reply is no JSON and the merge its own reply asks for otherwise.
C4_FallbackPerChunk ==
    entry = "_deduplicate_fields" =>
        /\ all_deduplicated = ConcatResults(Len(DedupCalls))
        /\ \A k \in 1..Len(DedupCalls) :
               Unparsed(DedupCalls[k].response) => Segment(k) = ExpectedChunk(k)

\* the first chunk (two records) merged into one, the second returned as is
C4_Witness ==
    /\ entry = "_deduplicate_fields"
    /\ pc = "returned"
    /\ Len(fields) = 3
    /\ batch_size = 2
    /\ Len(DedupCalls) = 2
    /\ ParsedArray(DedupCalls[1].response)
    /\ Unparsed(DedupCalls[2].response)
    /\ fields[1].source_pdf # fields[2].source_pdf
    /\ Len(all_deduplicated) = 2
    /\ all_deduplicated[1].sources = PyList(Docs)
    /\ all_deduplicated[2] = fields[3]

-----------------------------------------------------------------------------
(* Claims about grouping                                                   *)

GroupCallOver == entry = "_group_fields" /\ pc # "group" /\ Len(calls) = 1

\* C5: for N >= 1 fields and a grouping reply that is no JSON, the stage
\* returns the N input fields in input order, field k (from 0) tagged with
\* _group_id k, so the N records carry N distinct _group_id values.
C5_GroupingFallbackSingletons ==
    (GroupCallOver /\ Unparsed(LastReply)) =>
        /\ pc = "returned"
        /\ raised = "none"
        /\ Len(grouped_fields) = Len(all_deduplicated)
        /\ \A k \in 1..Len(all_deduplicated) :
               /\ grouped_fields[k]._group_id = k - 1
               /\ grouped_fields[k].field_name = all_deduplicated[k].field_name
               /\ grouped_fields[k].source_pdf = all_deduplicated[k].source_pdf
               /\ DOMAIN grouped_fields[k] = DOMAIN all_deduplicated[k] \cup {"_group_id"}
        /\ Cardinality({grouped_fields[k]._group_id : k \in 1..Len(grouped_fields)})
               = Len(all_deduplicated)

C5_Witness ==
    /\ GroupCallOver
    /\ Unparsed(LastReply)
    /\ Len(all_deduplicated) = MaxFields
    /\ Len(grouped_fields) = MaxFields
    /\ grouped_fields[MaxFields]._group_id = MaxFields - 1

\* the position (from 1) a Python index denotes in a list of n records
Position(n, index) == IF index >= 0 THEN index + 1 ELSE n + index + 1

\* C6: for a grouping reply that parses, the stage returns every input field
\* exactly once, tagged with the position of the one group that lists it.
C6_EveryFieldExactlyOnce ==
    (GroupCallOver /\ ParsedArray(LastReply) /\ pc = "returned") =>
        /\ Len(grouped_fields) = Len(all_deduplicated)
        /\ \A p \in 1..Len(all_deduplicated) :
               \E j \in 1..Len(grouped_fields) :
                   /\ grouped_fields[j] =
                          SetKey(all_deduplicated[p], "_group_id", grouped_fields[j]._group_id)
                   /\ LET groups == Decode(LastReply).value.items
                          g == grouped_fields[j]._group_id + 1
                      IN  /\ g \in 1..Len(groups)
                          /\ \E m \in 1..Len(groups[g].field_indices) :
                                 groups[g].field_indices[m] = p - 1

-----------------------------------------------------------------------------
(* Claims about conditional logic, labels and errors                       *)

Failed(response) == response.raised \/ Unparsed(response)
Metadata(k) == output[k].value._metadata

\* the structural request was answered with a text that is no JSON
SynthesisUnparsed ==
    /\ entry = "_generate_conditional_logic"
    /\ Len(calls) >= 1
    /\ Unparsed(calls[1].response)

\* C7 as stated: after a structural reply that is no JSON the schema holds no
\* parent question and no field entry's _metadata has a parent key or a
\* parent_condition key.
C7_NoParentKey ==
    (SynthesisUnparsed /\ pc = "returned") =>
        \A k \in 1..Len(output) :
            /\ "is_parent_question" \notin DOMAIN Metadata(k)
            /\ "parent" \notin DOMAIN Metadata(k)
            /\ "parent_condition" \notin DOMAIN Metadata(k)

\* C7 (amended): after a structural reply that is no JSON the stage goes on
\* with no parent question and no relationship: the schema holds no
\* parent-question entry, every field entry's _metadata has parent = None
\* (the key is present) and no parent_condition key, the structural step
\* itself does not raise, and on return every field name has its entry.
C7_FallbackNoGating ==
    SynthesisUnparsed =>
        /\ conditional_logic = [parent_questions |-> <<>>, field_relationships |-> <<>>]
        /\ \A k \in 1..Len(output) :
               /\ "is_parent_question" \notin DOMAIN Metadata(k)
               /\ Metadata(k).parent = PyNone
               /\ "parent_condition" \notin DOMAIN Metadata(k)
        /\ pc = "raised" =>
               /\ Len(calls) >= 2
               /\ calls[Len(calls)].stage = "label"
               /\ raised \in {"KeyError", "TypeError"}
        /\ pc = "returned" =>
               {output[k].key : k \in 1..Len(output)}
                   = {grouped_fields[k].field_name : k \in 1..Len(grouped_fields)}

C7_Witness ==
    /\ SynthesisUnparsed
    /\ pc = "returned"
    /\ Len(grouped_fields) = 2
    /\ Len(output) = 2
    /\ \A k \in 1..2 : Metadata(k).parent = PyNone

\* C8 as stated: a transport error of the structural request or of a
\* labelling request never leaves process_fields.
C8_TransportErrorsCaught ==
    \A k \in 1..Len(calls) :
        (calls[k].stage \in {"conditional", "label"} /\ calls[k].response.raised) =>
            pc # "raised"

\* the label and explanation the template gives each field name
TemplateFor(field_name) ==
    CASE field_name = "Name" ->
             [label |-> "What is your name?", explanation |-> "Enter your name"]
      [] field_name = "Full Name" ->
             [label |-> "What is your full name?", explanation |-> "Enter your full name"]

\* C8 (amended): a transport error of a labelling request is caught: it does
\* not leave process_fields, the field gets the templated label and the
\* schema is returned with an entry for every field; a transport error of
\* the structural request is not caught: it leaves process_fields, no schema
\* is returned, nothing is requested after it and main exits with status 1.
C8_OnlyLabelErrorsCaught ==
    \A k \in 1..Len(calls) :
        /\ (calls[k].stage = "label" /\ calls[k].response.raised) =>
               /\ pc # "raised"
               /\ raised = "none"
               /\ k = Len(calls) =>
                      /\ HasKey(output, calls[k].about[1].field_name)
                      /\ Lookup(output, calls[k].about[1].field_name).label
                             = TemplateFor(calls[k].about[1].field_name).label
               /\ pc \in {"save", "exit"} =>
                      {grouped_fields[j].field_name : j \in 1..Len(grouped_fields)}
                          \subseteq {output[j].key : j \in 1..Len(output)}
        /\ (calls[k].stage = "conditional" /\ calls[k].response.raised) =>
               /\ k = Len(calls)
               /\ pc = "raised"
               /\ raised = "APIError"
               /\ output = <<>>
               /\ exit_code = <<1>>

C8_Witness ==
    /\ entry = "main"
    /\ pc = "save"
    /\ Len(grouped_fields) = 2
    /\ calls[Len(calls)].stage = "label"
    /\ calls[Len(calls)].response.raised
    /\ Len(output) >= 2

\* C9: a transport error of a deduplication request or of the grouping
\* request leaves process_fields: it is the last request of the run, no later
\* stage has run, no schema exists and main exits with status 1.
C9_EarlyTransportErrorAborts ==
    \A k \in 1..Len(calls) :
        (calls[k].stage \in {"dedup", "group"} /\ calls[k].response.raised) =>
            /\ k = Len(calls)
            /\ pc = "raised"
            /\ raised = "APIError"
            /\ calls[k].stage = "dedup" => grouped_fields = <<>>
            /\ conditional_logic = <<>>
            /\ output = <<>>
            /\ entry = "main" => exit_code = <<1>>

C9_Witness ==
    /\ entry = "main"
    /\ Len(calls) >= 2
    /\ calls[1].stage = "dedup"
    /\ ~calls[1].response.raised
    /\ calls[Len(calls)].stage = "group"
    /\ calls[Len(calls)].response.raised
    /\ exit_code = <<1>>

\* the labelling request k decided the entry now stored under its field name:
\* it did not raise out of the stage and no later request relabelled the name
Decides(k) ==
    /\ calls[k].stage = "label"
    /\ k < Len(calls) \/ pc # "raised"
    /\ \A later \in (k + 1)..Len(calls) :
           (later < Len(calls) \/ pc # "raised") =>
               calls[later].about[1].field_name # calls[k].about[1].field_name

\* C10: when a labelling request fails or its reply is no JSON the field gets
\* exactly the template of its own name, and no other field's entry is
\* touched: every entry carries the label its own request decided.
C10_TemplatedLabelOnFailure ==
    \A k \in 1..Len(calls) :
        Decides(k) =>
            LET name == calls[k].about[1].field_name IN
            /\ HasKey(output, name)
            /\ IF Failed(calls[k].response)
               THEN /\ Lookup(output, name).label = TemplateFor(name).label
                    /\ Lookup(output, name).explanation = TemplateFor(name).explanation
               ELSE /\ Lookup(output, name).label = Decode(calls[k].response).value.members.label
                    /\ Lookup(output, name).explanation
                           = Decode(calls[k].response).value.members.explanation

\* the first field's request failed, the second field's reply parsed
C10_Witness ==
    /\ entry = "_generate_conditional_logic"
    /\ pc = "returned"
    /\ Len(grouped_fields) = 2
    /\ grouped_fields[1].field_name = "Full Name"
    /\ grouped_fields[2].field_name = "Name"
    /\ Len(calls) = 3
    /\ calls[2].response.raised
    /\ ~Failed(calls[3].response)
    /\ Lookup(output, "Full Name").label = "What is your full name?"
    /\ Lookup(output, "Name").label = "Your name, please"

-----------------------------------------------------------------------------
(* Claims about the assembly of the output schema                          *)

\* the structural step of _generate_conditional_logic is over and did not raise
Synthesised ==
    /\ entry = "_generate_conditional_logic"
    /\ Len(calls) >= 1
    /\ pc # "raised" \/ Len(calls) >= 2

ParentQuestions == Get(conditional_logic, "parent_questions", <<>>)
QuestionIds == {ParentQuestions[k].question_id : k \in 1..Len(ParentQuestions)}
ProcessedNames == {grouped_fields[k].field_name : k \in 1..idx}
Flagged(k) ==
    /\ "is_parent_question" \in DOMAIN Metadata(k)
    /\ Metadata(k).is_parent_question = TRUE
KeysOf(dict) == {dict[k].key : k \in 1..Len(dict)}

\* C11 as stated: in the returned schema every synthesized parent question
\* has its flagged entry under its question_id.
C11_EveryParentQuestionFlagged ==
    (Synthesised /\ pc = "returned") =>
        \A q \in QuestionIds :
            /\ HasKey(output, q)
            /\ "is_parent_question" \in DOMAIN Lookup(output, q)._metadata

\* C11 (amended): when the structural step is over and no field has been
\* inserted yet, the schema holds exactly one flagged entry per question id;
\* afterwards the entries of question ids that no inserted field is named
\* after are still there, once and flagged, in the first places of the
\* schema, and the entries under the names of inserted fields are regular
\* entries without the flag (a field named like a question id has replaced
\* that question's entry).
C11_ParentQuestionsFirst ==
    Synthesised =>
        /\ idx = 0 =>
               /\ Len(output) = Cardinality(QuestionIds)
               /\ KeysOf(output) = QuestionIds
               /\ \A k \in 1..Len(output) : Flagged(k)
        /\ \A q \in QuestionIds \ ProcessedNames :
               /\ Cardinality({k \in 1..Len(output) : output[k].key = q}) = 1
               /\ \A k \in 1..Len(output) : output[k].key = q => Flagged(k)
        /\ \A k \in 1..Len(output) :
               /\ k <= Cardinality(QuestionIds) <=> output[k].key \in QuestionIds
               /\ Flagged(k) <=> output[k].key \notin ProcessedNames
               /\ ~Flagged(k) => "is_parent_question" \notin DOMAIN Metadata(k)

C11_Witness ==
    /\ Synthesised
    /\ pc = "returned"
    /\ QuestionIds = {"are_you_married"}
    /\ Len(grouped_fields) = 2
    /\ Len(output) = 3
    /\ output[1].key = "are_you_married"
    /\ Flagged(1)
    /\ ~Flagged(2)
    /\ ~Flagged(3)

\* the field at position p (from 1) is the last inserted field of its name
LastOfName(p) ==
    /\ p \in 1..idx
    /\ \A later \in (p + 1)..idx :
           grouped_fields[later].field_name # grouped_fields[p].field_name

\* the documents a record names: its sources, or else its source_pdf alone
DocumentsOf(field) ==
    IF "sources" \in DOMAIN field THEN field.sources
    ELSE PyList({field.source_pdf[2]})

\* a labelling reply that assembly accepts: a failure, or an object with both keys
Labels(response) ==
    \/ Failed(response)
    \/ /\ Decode(response).value.shape = "object"
       /\ {"label", "explanation"} \subseteq DOMAIN Decode(response).value.members

\* C12: the keys of the schema are unique; a field whose name is already a
\* key (a question id or an earlier field's name) replaces that entry: the
\* one entry under the name is the one of the last inserted field of that
\* name, and inserting it raises nothing.
C12_LastWriteWins ==
    Synthesised =>
        /\ \A j, k \in 1..Len(output) : output[j].key = output[k].key => j = k
        /\ \A p \in 1..idx :
               LastOfName(p) =>
                   LET field == grouped_fields[p] IN
                   /\ Cardinality({k \in 1..Len(output) :
                                      output[k].key = field.field_name}) = 1
                   /\ "field_name" \in DOMAIN Lookup(output, field.field_name)._metadata
                   /\ Lookup(output, field.field_name)._metadata.field_name = field.field_name
                   /\ Lookup(output, field.field_name)._metadata.source_pdf = DocumentsOf(field)
                   /\ Lookup(output, field.field_name)._metadata.order_index
                          = (IF "_group_id" \in DOMAIN field THEN field._group_id ELSE p - 1)
                   /\ "is_parent_question"
                          \notin DOMAIN Lookup(output, field.field_name)._metadata
        /\ (Len(calls) >= 2 /\ Labels(calls[Len(calls)].response)) => pc # "raised"

\* two fields of one name after a question of that name: one entry survives
C12_Witness ==
    /\ Synthesised
    /\ pc = "returned"
    /\ QuestionIds = {"Name"}
    /\ Len(grouped_fields) = 2
    /\ grouped_fields[1].field_name = "Name"
    /\ grouped_fields[2].field_name = "Name"
    /\ "sources" \in DOMAIN grouped_fields[1]
    /\ "sources" \notin DOMAIN grouped_fields[2]
    /\ grouped_fields[2].source_pdf = PyStr("b.pdf")
    /\ Len(output) = 1
    /\ output[1].value._metadata.source_pdf = PyList({"b.pdf"})

-----------------------------------------------------------------------------
(* Claims about ownership, order of requests and the run as a whole        *)

Bound(name) == list_of[name] # 0
ObjectsOf(name) == lists[list_of[name]]

\* C13: no stage writes to what it was handed: the caller's list holds the
\* same objects with the same contents throughout, the list each later stage
\* was handed still has the contents it had when it was handed over, and
\* the lists the stages return are objects of their own.
C13_NoStageMutatesInput ==
    entry = "main" =>
        /\ ObjectsOf("fields") = [k \in 1..Len(fields) |-> k]
        /\ Deref(heap, ObjectsOf("fields")) = fields
        /\ Bound("all_deduplicated") =>
               /\ Deref(heap, ObjectsOf("all_deduplicated")) = all_deduplicated
               /\ list_of.all_deduplicated # list_of.fields
        /\ Bound("grouped_fields") =>
               /\ Deref(heap, ObjectsOf("grouped_fields")) = grouped_fields
               /\ list_of.grouped_fields \notin {list_of.fields, list_of.all_deduplicated}
               /\ \A k \in 1..Len(ObjectsOf("grouped_fields")) :
                      ObjectsOf("grouped_fields")[k] > Len(fields)

\* the fallback of deduplication handed the caller's own objects to grouping,
\* which tagged copies of them
C13_Witness ==
    /\ entry = "main"
    /\ pc = "save"
    /\ Len(fields) = 2
    /\ ObjectsOf("all_deduplicated") = ObjectsOf("fields")
    /\ Len(ObjectsOf("grouped_fields")) = 2
    /\ "_group_id" \in DOMAIN heap[ObjectsOf("grouped_fields")[1]]
    /\ "_group_id" \notin DOMAIN heap[1]
    /\ heap[1] = fields[1]

\* the place of a stage in process_fields (lines 51, 56, 60 and 378)
Rank(stage) ==
    CASE stage = "dedup" -> 1
      [] stage = "group" -> 2
      [] stage = "conditional" -> 3
      [] stage = "label" -> 4

\* the requests of one stage, in the order they were issued
CallsOf(stage) == SelectSeq(calls, LAMBDA c : c.stage = stage)

\* how many chunks the caller's list is cut into
Chunks == (Len(fields) + batch_size - 1) \div batch_size

\* C14: the requests of a run are issued in stage order and none is
\* repeated: the k-th deduplication request is about the k-th chunk, then
\* comes at most one grouping request, then one structural request, then the
\* k-th labelling request is about the k-th field; a stage starts only when
\* the stages before it have issued all their requests, whatever the replies.
C14_RequestsInStageOrder ==
    entry = "main" =>
        /\ \A j, k \in 1..Len(calls) :
               j < k => Rank(calls[j].stage) <= Rank(calls[k].stage)
        /\ Len(CallsOf("dedup")) <= Chunks
        /\ \A k \in 1..Len(CallsOf("dedup")) :
               /\ CallsOf("dedup")[k].at = (k - 1) * batch_size
               /\ CallsOf("dedup")[k].about
                      = Slice(fields, (k - 1) * batch_size, k * batch_size)
        /\ Len(CallsOf("group")) <= 1
        /\ Len(CallsOf("conditional")) <= 1
        /\ Len(CallsOf("label")) <= Len(grouped_fields)
        /\ \A k \in 1..Len(CallsOf("label")) :
               /\ CallsOf("label")[k].at = k - 1
               /\ CallsOf("label")[k].about[1].field_name = grouped_fields[k].field_name
        /\ \A c \in {calls[k] : k \in 1..Len(calls)} :
               Rank(c.stage) > 1 => Len(CallsOf("dedup")) = Chunks
        /\ CallsOf("conditional") # <<>> =>
               Len(CallsOf("group")) = (IF all_deduplicated = <<>> THEN 0 ELSE 1)
        /\ CallsOf("label") # <<>> => Len(CallsOf("conditional")) = 1
        /\ pc \in {"save", "exit"} => Len(CallsOf("label")) = Len(grouped_fields)

\* two chunks of which the first got a reply that is no JSON, then grouping,
\* the structural request and two labels
C14_Witness ==
    /\ entry = "main"
    /\ pc = "save"
    /\ Len(calls) = 6
    /\ Unparsed(calls[1].response)
    /\ <<calls[1].stage, calls[2].stage, calls[3].stage,
          calls[4].stage, calls[5].stage, calls[6].stage>>
           = <<"dedup", "dedup", "group", "conditional", "label", "label">>

\* C15 as stated: extract-only mode on an extraction without fields writes
\* {"total_fields": 0, "fields": []} and exits with status 0.
C15_EmptyExtractionWritten ==
    (entry = "main" /\ extract_only /\ fields = <<>> /\ pc = "exit") =>
        /\ exit_code = <<0>>
        /\ file = <<[total_fields |-> 0, fields |-> <<>>]>>

-----------------------------------------------------------------------------
(* Claims about the decoding of replies                                    *)

\* the text is all the lines of one JSON document
IsDocument(text) ==
    /\ Len(text) >= 1
    /\ \A k \in 1..Len(text) : text[k] = JsonLine(text[1].value, k, Len(text))

\* an opening fence line, the lines of one document, a closing fence line
IsFenced(text) ==
    /\ Len(text) >= 3
    /\ text[1] \in {Fence, FenceJson}
    /\ text[Len(text)] = Fence
    /\ IsDocument(SubSeq(text, 2, Len(text) - 1))

\* C16: a reply that carries a JSON document between an opening fence line
\* (tagged json or not) and a closing fence line is decoded as the bare
\* document is, on however many lines the document is written: exactly the
\* two fence lines are removed, and the call ends as it does on the bare
\* document.
C16_FenceInsensitive ==
    (BatchCallOver /\ IsFenced(LastReply.text)) =>
        LET text == LastReply.text
            payload == SubSeq(text, 2, Len(text) - 1)
            bare == deduplicate_batch(fields, Reply(payload))
        IN  /\ strip_code_block(text) = payload
            /\ Decode(LastReply) = [ok |-> TRUE, value |-> payload[1].value]
            /\ Decode(Reply(payload)) = Decode(LastReply)
            /\ raised = bare.raised
            /\ bare.raised = "none" => all_deduplicated = bare.value

\* a document on two lines inside a tagged fence merged the batch
C16_Witness ==
    /\ BatchCallOver
    /\ LastReply.text = <<FenceJson>> \o Document(Array(<<Group("Full Name", <<0>>)>>), 2)
                            \o <<Fence>>
    /\ pc = "returned"
    /\ Len(all_deduplicated) = 1
    /\ all_deduplicated[1].field_name = "Full Name"

-----------------------------------------------------------------------------
(* Claims about the metadata of field entries                              *)

\* the key a position is looked up under
PositionKey == <<"0", "1", "2", "3", "4">>
Relationships == Get(conditional_logic, "field_relationships", <<>>)
\* the relationship stored for position p (from 1), None when there is none
RelationshipAt(p) ==
    IF PositionKey[p] \in DOMAIN Relationships THEN Relationships[PositionKey[p]] ELSE PyNone
\* values Python takes as false
Falsy(value) == value \in {PyNone, PyStr(""), PyDict(<<>>)}

\* C17: the entry of the field at position idx has order_index = its
\* _group_id (idx without one), so fields of one group share it; parent and
\* parent_condition are those of the relationship stored under str(idx):
\* with none there parent is None and there is no parent_condition key.
C17_MetadataByPosition ==
    Synthesised =>
        \A p \in 1..idx :
            LastOfName(p) =>
                LET field == grouped_fields[p]
                    metadata == Lookup(output, field.field_name)._metadata
                    rel == RelationshipAt(p)
                IN  /\ metadata.order_index
                           = (IF "_group_id" \in DOMAIN field THEN field._group_id ELSE p - 1)
                    /\ \A q \in 1..idx :
                           (/\ LastOfName(q)
                            /\ "_group_id" \in DOMAIN field
                            /\ "_group_id" \in DOMAIN grouped_fields[q]
                            /\ grouped_fields[q]._group_id = field._group_id) =>
                               Lookup(output, grouped_fields[q].field_name)._metadata.order_index
                                   = metadata.order_index
                    /\ IF Falsy(rel)
                       THEN /\ metadata.parent = PyNone
                            /\ "parent_condition" \notin DOMAIN metadata
                       ELSE IF rel[1] = "dict"
                       THEN /\ metadata.parent
                                   = (IF "parent_id" \in DOMAIN rel[2]
                                      THEN rel[2].parent_id ELSE PyNone)
                            /\ IF "condition" \in DOMAIN rel[2] /\ ~Falsy(rel[2].condition)
                               THEN /\ "parent_condition" \in DOMAIN metadata
                                    /\ metadata.parent_condition = rel[2].condition
                               ELSE "parent_condition" \notin DOMAIN metadata
                       ELSE /\ metadata.parent = rel
                            /\ "parent_condition" \notin DOMAIN metadata

\* two fields of group 0, the second gated by the relationship under "1"
C17_Witness ==
    /\ Synthesised
    /\ pc = "returned"
    /\ Len(grouped_fields) = 2
    /\ grouped_fields[1].field_name = "Name"
    /\ grouped_fields[2].field_name = "Full Name"
    /\ "_group_id" \in DOMAIN grouped_fields[1]
    /\ "_group_id" \in DOMAIN grouped_fields[2]
    /\ grouped_fields[1]._group_id = 0
    /\ grouped_fields[2]._group_id = 0
    /\ DOMAIN Relationships = {"1"}
    /\ Lookup(output, "Name")._metadata.order_index = 0
    /\ Lookup(output, "Full Name")._metadata.order_index = 0
    /\ Lookup(output, "Name")._metadata.parent = PyNone
    /\ Lookup(output, "Full Name")._metadata.parent = PyStr("are_you_married")
    /\ "parent_condition" \in DOMAIN Lookup(output, "Full Name")._metadata

\* the documents of the records one deduplication request leaves behind, in
\* order: per record its own document when the reply did not decode, per
\* group with indices the documents of the records it lists when it did
DocumentsAfter(call) ==
    IF Unparsed(call.response)
    THEN [k \in 1..Len(call.about) |-> {call.about[k].source_pdf[2]}]
    ELSE LET groups == SelectSeq(Decode(call.response).value.items,
                                 LAMBDA g : g.field_indices # <<>>)
         IN  [k \in 1..Len(groups) |->
                 {At(call.about, groups[k].field_indices[j]).source_pdf[2] :
                      j \in 1..Len(groups[k].field_indices)}]

RECURSIVE DocumentsUpTo(_)
DocumentsUpTo(k) ==
    IF k = 0 THEN <<>> ELSE DocumentsUpTo(k - 1) \o DocumentsAfter(CallsOf("dedup")[k])

\* C18: through the whole run the entry of a field lists as
\* _metadata.source_pdf exactly the documents of the records deduplication
\* merged into it: those of every record its group listed, or its own
\* single document when its chunk's reply did not decode.
C18_SourceDocumentsEndToEnd ==
    (entry = "main" /\ pc \in {"label", "save", "exit"}) =>
        LET documents == DocumentsUpTo(Len(CallsOf("dedup"))) IN
        /\ Len(grouped_fields) = Len(documents)
        /\ \A p \in 1..idx :
               LastOfName(p) =>
                   LET source_pdf ==
                           Lookup(output, grouped_fields[p].field_name)._metadata.source_pdf
                   IN  /\ source_pdf[1] = "list"
                       /\ source_pdf[2] = documents[p]

\* one chunk of two records from two documents, merged into one field
C18_Witness ==
    /\ entry = "main"
    /\ pc = "save"
    /\ Len(fields) = 2
    /\ fields[1].source_pdf # fields[2].source_pdf
    /\ Len(CallsOf("dedup")) = 1
    /\ ~Unparsed(calls[1].response)
    /\ Len(grouped_fields) = 1
    /\ Lookup(output, "Full Name")._metadata.source_pdf = PyList({"a.pdf", "b.pdf"})

\* C19 as stated: a run in which no request met a transport error returns
\* its schema, whatever the replies say.
C19_NoRaiseWithoutTransportError ==
    (/\ entry = "main"
     /\ calls # <<>>
     /\ \A k \in 1..Len(calls) : ~calls[k].response.raised) =>
        /\ pc # "raised"
        /\ raised = "none"

====
